---------------------------- MODULE Spec2Model ----------------------------
(***************************************************************************)
(* Streaming outputs of a graph run (docs/docs/how-tos/streaming.ipynb).   *)
(*                                                                         *)
(* The notebook defines two node functions, wires them into a graph and    *)
(* consumes graph.stream(input, stream_mode=...) in the modes "values",    *)
(* "updates", "debug", "custom" and in combinations of them.  The node     *)
(* functions, the wiring and the stream calls are translated from the      *)
(* notebook.  The graph runner behind graph.stream is not part of the      *)
(* notebook: it is modelled as a layered executor (plan a layer, run its   *)
(* steps concurrently, apply their writes, plan the next layer) whose      *)
(* emissions follow the notebook's description of each mode and its        *)
(* recorded outputs.                                                       *)
(*                                                                         *)
(* Two runs of the same compiled graph on the same input are modelled side *)
(* by side, each with its own stream_mode request and its own scheduling,  *)
(* so that statements comparing two streams can be checked.                *)
(*                                                                         *)
(* Not modelled: the "messages" mode (token streaming of a model call),    *)
(* and the timestamp field of debug events.                                *)
(***************************************************************************)
EXTENDS Naturals, Sequences, FiniteSets, TLC

VARIABLES
    graph,      \* the edges of the compiled graph
    variant,    \* which definition of generate_joke the graph was built with
    input,      \* the initial state mapping passed to stream
    request,    \* request[r]: the stream_mode argument of run r
    pc,         \* pc[r]: "ready", "running" or "done"
    state,      \* state[r]: the accumulated state mapping
    step,       \* step[r]: the counter of execution layers
    tasks,      \* tasks[r]: the steps of the current layer
    invoked,    \* invoked[r]: steps of the layer whose function has been entered
    writes,     \* writes[r]: <<name, update>> of the returned steps, in completion order
    executed,   \* executed[r]: the steps that returned, in completion order
    out         \* out[r]: the items the consumer of run r has received

vars == <<graph, variant, input, request, pc, state, step, tasks, invoked,
          writes, executed, out>>

Runs == {1, 2}

START == "__start__"

Fields == <<"topic", "joke">>

NodeOrder == <<"refine_topic", "generate_joke">>

Nodes == {NodeOrder[i] : i \in 1..Len(NodeOrder)}

-----------------------------------------------------------------------------
(* The node functions of the notebook. *)

\* refine_topic joining the words without the blank.
refine_topic_noblank(s) == [topic |-> s["topic"] \o "and cats"]

refine_topic(s) == [topic |-> s["topic"] \o " and cats"]

generate_joke(s) == [joke |-> "This is a joke about " \o s["topic"]]

\* generate_joke returning without having called its writer.
generate_joke_writer_silent(s) == << >>

\* generate_joke(state, writer): the values passed to writer, in call order.
generate_joke_writer(s) ==
    <<[custom_key |-> "Writing custom data while generating a joke"]>>

Variants == {"plain", "writer"}

\* The partial update a step returns.
NodeUpdate(v, n, s) ==
    IF n = "refine_topic" THEN refine_topic(s) ELSE generate_joke(s)

\* The values a step passes to its injected writer before it returns.
NodeWrites(v, n, s) ==
    IF n = "generate_joke" /\ v = "writer" THEN generate_joke_writer(s) ELSE <<>>

-----------------------------------------------------------------------------
(* Graphs over the two nodes. *)

\* The example graph with generate_joke wired to START instead of refine_topic.
LinearGraph_fanout == {<<START, "refine_topic">>, <<START, "generate_joke">>}

LinearGraph == {<<START, "refine_topic">>, <<"refine_topic", "generate_joke">>}

ParallelGraph == {<<START, "refine_topic">>, <<START, "generate_joke">>}

ReversedGraph == {<<START, "generate_joke">>, <<"generate_joke", "refine_topic">>}

Graphs == {LinearGraph, ParallelGraph, ReversedGraph}

Inputs == {[topic |-> "ice cream"], [topic |-> "dogs", joke |-> "an old joke"]}

-----------------------------------------------------------------------------
(* The stream_mode argument: one mode tag, or a list of mode tags. *)

Modes == {"values", "updates", "debug", "custom"}

ModeLists == {<<"updates", "custom">>, <<"values", "updates">>, <<"values">>,
              <<"debug", "custom">>, <<"values", "updates", "debug", "custom">>}

Single(m) == [single |-> TRUE, modes |-> <<m>>]

Listed(l) == [single |-> FALSE, modes |-> l]

Requests == {Single(m) : m \in Modes} \cup {Listed(l) : l \in ModeLists}

Requested(req) == {req.modes[i] : i \in 1..Len(req.modes)}

-----------------------------------------------------------------------------
(* The graph runner: state merging and layer planning. *)

\* The update replacing the state instead of being merged into it.
Merge_replace(s, u) == u

\* A partial update merged into a state mapping: the update's fields are
\* overwritten or added, every other field is kept.
Merge(s, u) ==
    [k \in DOMAIN s \cup DOMAIN u |-> IF k \in DOMAIN u THEN u[k] ELSE s[k]]

\* The members of a set of nodes, in the order the nodes were added.
InOrder(S) == SelectSeq(NodeOrder, LAMBDA n : n \in S)

\* The writes of a layer applied to the state, step by step in node order.
RECURSIVE ApplyFrom(_, _, _)
ApplyFrom(s, ws, i) ==
    IF i > Len(ws) THEN s ELSE ApplyFrom(Merge(s, ws[i][2]), ws, i + 1)

ApplyWrites(s, ws) ==
    LET names == {ws[i][1] : i \in 1..Len(ws)}
        ord   == InOrder(names)
        byName(n) == ws[CHOOSE i \in 1..Len(ws) : ws[i][1] = n]
    IN  ApplyFrom(s, [i \in 1..Len(ord) |-> byName(ord[i])], 1)

\* The steps of the next layer: the nodes with an edge from a step that ran.
NextTasks(g, prev) == {m \in Nodes : \E p \in prev : <<p, m>> \in g}

\* What caused a step to be scheduled.
Triggers(g, n, prev) ==
    IF START \in prev
    THEN <<"start:" \o n>>
    ELSE SelectSeq(NodeOrder, LAMBDA p : p \in prev /\ <<p, n>> \in g)

-----------------------------------------------------------------------------
(* The chunk of each mode. *)

\* "values": all values in the state.
ValuesChunk(s) == s

\* The update emitted bare, without the name of its node.
UpdatesChunk_unkeyed(n, u) == u

\* The update emitted under the name of every node of the graph.
UpdatesChunk_allNodes(n, u) == [k \in Nodes |-> u]

\* "updates": the name of the node and the update it returned.
UpdatesChunk(n, u) == [k \in {n} |-> u]

\* The identifier computed from the step number alone.
TaskId_stepOnly(st, n) == <<st, "">>

\* The identifier of a task: distinct for every step of a run.
TaskId(st, n) == <<st, n>>

\* The update of a step as the list of (field, value) pairs it wrote.
ResultOf(u) ==
    LET fs == SelectSeq(Fields, LAMBDA f : f \in DOMAIN u)
    IN  [i \in 1..Len(fs) |-> <<fs[i], u[fs[i]]>>]

\* "debug": a task was scheduled.
TaskEvent(st, n, s, trig) ==
    [type |-> "task", step |-> st,
     payload |-> [id |-> TaskId(st, n), name |-> n, input |-> s,
                  triggers |-> trig]]

\* The task result carrying the number of the layer after its own.
TaskResultEvent_nextStep(st, n, u) ==
    [type |-> "task_result", step |-> st + 1,
     payload |-> [id |-> TaskId(st, n), name |-> n, error |-> "None",
                  result |-> ResultOf(u), interrupts |-> <<>>]]

\* "debug": a task finished.
TaskResultEvent(st, n, u) ==
    [type |-> "task_result", step |-> st,
     payload |-> [id |-> TaskId(st, n), name |-> n, error |-> "None",
                  result |-> ResultOf(u), interrupts |-> <<>>]]

\* One emission of the runner: the mode that produced it and its chunk.
Emission(m, c) == [mode |-> m, chunk |-> c]

\* The task events of a layer, one per step, in node order.
TaskEvents(st, T, s, g, prev) ==
    LET ord == InOrder(T)
    IN  [i \in 1..Len(ord) |->
            Emission("debug", TaskEvent(st, ord[i], s, Triggers(g, ord[i], prev)))]

\* The values passed to the writer, as emissions of mode "custom".
CustomEmissions(ws) == [i \in 1..Len(ws) |-> Emission("custom", ws[i])]

\* What a step's return emits: its update, then its task result.
ReturnEmissions(st, n, u) ==
    <<Emission("updates", UpdatesChunk(n, u)),
      Emission("debug", TaskResultEvent(st, n, u))>>

\* Every item tagged with the first mode of the runner, whatever produced it.
TagOf_updates(e) == "updates"

\* The tag an item of a combined-mode stream carries.
TagOf(e) == e.mode

\* Every emission delivered, requested or not.
Deliver_unfiltered(req, ems) ==
    [i \in 1..Len(ems) |->
        IF req.single THEN ems[i].chunk
        ELSE [mode |-> ems[i].mode, chunk |-> ems[i].chunk]]

\* What the consumer receives of a sequence of emissions: those of the
\* requested modes; the chunk alone for a single mode, the pair
\* (mode, chunk) for a list of modes.
Deliver(req, ems) ==
    LET sel == SelectSeq(ems, LAMBDA e : e.mode \in Requested(req))
    IN  [i \in 1..Len(sel) |->
            IF req.single THEN sel[i].chunk
            ELSE [mode |-> TagOf(sel[i]), chunk |-> sel[i].chunk]]

-----------------------------------------------------------------------------
(* The runs. *)

Init ==
    /\ graph \in Graphs
    /\ variant \in Variants
    /\ input \in Inputs
    /\ request \in [Runs -> Requests]
    /\ pc = [r \in Runs |-> "ready"]
    /\ state = [r \in Runs |-> << >>]
    /\ step = [r \in Runs |-> 0]
    /\ tasks = [r \in Runs |-> {}]
    /\ invoked = [r \in Runs |-> {}]
    /\ writes = [r \in Runs |-> << >>]
    /\ executed = [r \in Runs |-> << >>]
    /\ out = [r \in Runs |-> << >>]

Returned(r) == {writes[r][i][1] : i \in 1..Len(writes[r])}

\* stream(input, stream_mode): the input becomes the state, the state is
\* emitted, the first layer is planned and its tasks are announced.
Start(r) ==
    /\ pc[r] = "ready"
    /\ LET T == NextTasks(graph, {START})
       IN  /\ state' = [state EXCEPT ![r] = input]
           /\ step' = [step EXCEPT ![r] = 1]
           /\ tasks' = [tasks EXCEPT ![r] = T]
           /\ out' = [out EXCEPT ![r] = @ \o Deliver(request[r],
                        <<Emission("values", ValuesChunk(input))>>
                        \o TaskEvents(1, T, input, graph, {START}))]
    /\ pc' = [pc EXCEPT ![r] = "running"]
    /\ UNCHANGED <<graph, variant, input, request, invoked, writes, executed>>

\* A step of the layer enters its function: the function reads the state
\* and calls its writer.
Invoke(r, n) ==
    /\ pc[r] = "running"
    /\ n \in tasks[r] \ invoked[r]
    /\ invoked' = [invoked EXCEPT ![r] = @ \cup {n}]
    /\ out' = [out EXCEPT ![r] = @ \o Deliver(request[r],
                  CustomEmissions(NodeWrites(variant, n, state[r])))]
    /\ UNCHANGED <<graph, variant, input, request, pc, state, step, tasks,
                   writes, executed>>

\* A step's function returns its partial update.
Return(r, n) ==
    /\ pc[r] = "running"
    /\ n \in invoked[r] \ Returned(r)
    /\ LET u == NodeUpdate(variant, n, state[r])
       IN  /\ writes' = [writes EXCEPT ![r] = Append(@, <<n, u>>)]
           /\ executed' = [executed EXCEPT ![r] = Append(@,
                              [name |-> n, step |-> step[r],
                               input |-> state[r], update |-> u])]
           /\ out' = [out EXCEPT ![r] = @ \o Deliver(request[r],
                         ReturnEmissions(step[r], n, u))]
    /\ UNCHANGED <<graph, variant, input, request, pc, state, step, tasks,
                   invoked>>

\* Every step of the layer has returned: the writes are applied, the state
\* is emitted, and the next layer is planned and announced; the run ends
\* when no step is left to run.
Tick(r) ==
    /\ pc[r] = "running"
    /\ Returned(r) = tasks[r]
    /\ LET s == ApplyWrites(state[r], writes[r])
           T == NextTasks(graph, tasks[r])
       IN  /\ state' = [state EXCEPT ![r] = s]
           /\ tasks' = [tasks EXCEPT ![r] = T]
           /\ step' = [step EXCEPT ![r] = IF T = {} THEN @ ELSE @ + 1]
           /\ pc' = [pc EXCEPT ![r] = IF T = {} THEN "done" ELSE "running"]
           /\ out' = [out EXCEPT ![r] = @ \o Deliver(request[r],
                        <<Emission("values", ValuesChunk(s))>>
                        \o TaskEvents(step[r] + 1, T, s, graph, tasks[r]))]
    /\ invoked' = [invoked EXCEPT ![r] = {}]
    /\ writes' = [writes EXCEPT ![r] = << >>]
    /\ UNCHANGED <<graph, variant, input, request, executed>>

Next ==
    \E r \in Runs :
        \/ Start(r)
        \/ \E n \in Nodes : Invoke(r, n)
        \/ \E n \in Nodes : Return(r, n)
        \/ Tick(r)

Spec == Init /\ [][Next]_vars

-----------------------------------------------------------------------------
(* Reading a stream. *)

\* The chunks of mode m that run r's consumer has received, in order.
ChunksOf(r, m) ==
    IF request[r].single
    THEN IF request[r].modes[1] = m THEN out[r] ELSE << >>
    ELSE LET sel == SelectSeq(out[r], LAMBDA e : e.mode = m)
         IN  [i \in 1..Len(sel) |-> sel[i].chunk]

Asked(r, m) == m \in Requested(request[r])

IsPrefix(a, b) == Len(a) <= Len(b) /\ \A i \in 1..Len(a) : a[i] = b[i]

\* The names of the steps that returned in run r, in completion order.
ExecutedNames(r) == [i \in 1..Len(executed[r]) |-> executed[r][i].name]

IceCream == [topic |-> "ice cream"]

-----------------------------------------------------------------------------
(* C1: for START -> refine_topic -> generate_joke and the input            *)
(* {topic: "ice cream"}, a values-mode stream is at every moment a prefix  *)
(* of the three chunks {topic: "ice cream"}, {topic: "ice cream and cats"},*)
(* {topic: "ice cream and cats", joke: "This is a joke about ice cream and *)
(* cats"}, and the finished stream is exactly these three.                 *)

C1_Case(r) ==
    graph = LinearGraph /\ input = IceCream /\ request[r] = Single("values")

C1_Expected ==
    <<[topic |-> "ice cream"],
      [topic |-> "ice cream and cats"],
      [topic |-> "ice cream and cats",
       joke |-> "This is a joke about ice cream and cats"]>>

C1_ValuesExample ==
    \A r \in Runs :
        C1_Case(r) =>
            /\ IsPrefix(out[r], C1_Expected)
            /\ pc[r] = "done" => out[r] = C1_Expected

C1_Witness == \E r \in Runs : C1_Case(r) /\ pc[r] = "done" /\ Len(out[r]) = 3

-----------------------------------------------------------------------------
(* C2: in values mode the keys of every chunk after the first include the  *)
(* keys of the chunk before it.                                            *)

C2_ValuesKeysGrow ==
    \A r \in Runs :
        Asked(r, "values") =>
            LET V == ChunksOf(r, "values")
            IN  \A i \in 2..Len(V) : DOMAIN V[i - 1] \subseteq DOMAIN V[i]

C2_Witness ==
    \E r \in Runs :
        /\ Asked(r, "values") /\ pc[r] = "done"
        /\ LET V == ChunksOf(r, "values")
           IN  /\ Len(V) = 3
               /\ DOMAIN V[1] = {"topic"}
               /\ DOMAIN V[3] = {"topic", "joke"}

-----------------------------------------------------------------------------
(* C3: in updates mode the keys of the chunks, in emission order, are the  *)
(* names of the steps that executed, in execution order: one chunk per     *)
(* executed step, none for a step that did not execute; for the example    *)
(* graph refine_topic, then generate_joke.                                 *)

C3_UpdatesFollowExecution ==
    \A r \in Runs :
        Asked(r, "updates") =>
            LET U == ChunksOf(r, "updates")
            IN  /\ Len(U) = Len(executed[r])
                /\ \A i \in 1..Len(U) : DOMAIN U[i] = {executed[r][i].name}
                /\ (graph = LinearGraph /\ pc[r] = "done") =>
                      /\ Len(U) = 2
                      /\ DOMAIN U[1] = {"refine_topic"}
                      /\ DOMAIN U[2] = {"generate_joke"}

C3_Witness ==
    \E r \in Runs :
        /\ request[r] = Single("updates") /\ graph = LinearGraph
        /\ pc[r] = "done" /\ Len(out[r]) = 2
        /\ ExecutedNames(r) = <<"refine_topic", "generate_joke">>

-----------------------------------------------------------------------------
(* C4: in debug mode no task_result event precedes the task event of its   *)
(* id, no id has two task_result events, and in a completed run every task *)
(* event is followed by a task_result event of the same id.                *)

IsTask(e) == e.type = "task"

IsResult(e) == e.type = "task_result"

C4_TaskThenOneResult ==
    \A r \in Runs :
        Asked(r, "debug") =>
            LET D == ChunksOf(r, "debug")
            IN  /\ \A j \in 1..Len(D) :
                      IsResult(D[j]) =>
                          /\ \E i \in 1..(j - 1) :
                                IsTask(D[i]) /\ D[i].payload.id = D[j].payload.id
                          /\ \A i \in 1..(j - 1) :
                                IsResult(D[i]) => D[i].payload.id # D[j].payload.id
                /\ pc[r] = "done" =>
                      \A i \in 1..Len(D) :
                          IsTask(D[i]) =>
                              \E j \in (i + 1)..Len(D) :
                                  IsResult(D[j]) /\ D[j].payload.id = D[i].payload.id

C4_Witness ==
    \E r \in Runs :
        /\ request[r] = Single("debug") /\ graph = ParallelGraph /\ pc[r] = "done"
        /\ Len(out[r]) = 4
        /\ IsTask(out[r][1]) /\ IsTask(out[r][2])
        /\ IsResult(out[r][3]) /\ IsResult(out[r][4])
        /\ out[r][3].payload.id = out[r][2].payload.id

-----------------------------------------------------------------------------
(* C5: with a list of mode tags every emitted item is a pair whose first   *)
(* element is one of the requested tags.                                   *)

C5_TagsAreRequested ==
    \A r \in Runs :
        ~request[r].single =>
            \A i \in 1..Len(out[r]) :
                /\ DOMAIN out[r][i] = {"mode", "chunk"}
                /\ out[r][i].mode \in Requested(request[r])

C5_Witness ==
    \E r \in Runs :
        /\ request[r] = Listed(<<"updates", "custom">>)
        /\ variant = "writer" /\ pc[r] = "done"
        /\ {out[r][i].mode : i \in 1..Len(out[r])} = {"updates", "custom"}
-----------------------------------------------------------------------------
(* C6: a value passed to the writer reaches a custom-mode consumer at the  *)
(* moment of the call, before the step returns: the custom chunks received *)
(* are exactly the values written by the steps entered so far (none for a  *)
(* step that never calls the writer); in a stream combining updates and    *)
(* custom, a custom chunk written by generate_joke precedes the updates    *)
(* chunk keyed generate_joke and, in the example graph, follows the        *)
(* updates chunk of refine_topic.                                          *)

WriterPayload == [custom_key |-> "Writing custom data while generating a joke"]

\* How many times the function of node n has been entered in run r.
Entered(r, n) ==
    Cardinality({i \in 1..Len(executed[r]) : executed[r][i].name = n})
        + (IF n \in invoked[r] \ Returned(r) THEN 1 ELSE 0)

WriterCalls(r) == IF variant = "writer" THEN Entered(r, "generate_joke") ELSE 0

IsUpdateOf(e, n) == e.mode = "updates" /\ DOMAIN e.chunk = {n}

C6_CustomAtCall ==
    \A r \in Runs :
        /\ Asked(r, "custom") =>
              ChunksOf(r, "custom") = [i \in 1..WriterCalls(r) |-> WriterPayload]
        /\ (~request[r].single /\ Asked(r, "updates") /\ Asked(r, "custom")) =>
              \A c \in 1..Len(out[r]) :
                  out[r][c].mode = "custom" =>
                      /\ \A j \in 1..Len(out[r]) :
                            IsUpdateOf(out[r][j], "generate_joke") => c < j
                      /\ graph = LinearGraph =>
                            \E j \in 1..(c - 1) : IsUpdateOf(out[r][j], "refine_topic")

C6_Witness ==
    \E r \in Runs :
        /\ request[r] = Listed(<<"updates", "custom">>)
        /\ graph = LinearGraph /\ variant = "writer"
        /\ "generate_joke" \in invoked[r] \ Returned(r)
        /\ Len(out[r]) = 2
        /\ IsUpdateOf(out[r][1], "refine_topic")
        /\ out[r][2] = [mode |-> "custom", chunk |-> WriterPayload]

-----------------------------------------------------------------------------
(* C7: in debug mode every executed step has exactly one task event and    *)
(* one task_result event, the task event first, both with the step's       *)
(* number and name; the task event is in the stream before the step's      *)
(* function is entered and the task_result event only after it returned;   *)
(* the step counter never decreases along the stream and is strictly       *)
(* larger for a step than for the step that triggered it (1 for            *)
(* refine_topic, 2 for generate_joke in the example graph).                *)

C7_DebugPairs ==
    \A r \in Runs :
        Asked(r, "debug") =>
            LET D == ChunksOf(r, "debug")
                Ev(ty, st, n) ==
                    {i \in 1..Len(D) : /\ D[i].type = ty
                                       /\ D[i].step = st
                                       /\ D[i].payload.name = n}
                Named(n) == {i \in 1..Len(D) : D[i].payload.name = n}
            IN  /\ \A k \in 1..Len(executed[r]) :
                      LET e == executed[r][k]
                      IN  /\ Cardinality(Ev("task", e.step, e.name)) = 1
                          /\ Cardinality(Ev("task_result", e.step, e.name)) = 1
                          /\ Cardinality(Named(e.name)) = 2
                          /\ \A i \in Ev("task", e.step, e.name) :
                                \A j \in Ev("task_result", e.step, e.name) : i < j
                /\ \A n \in invoked[r] : Cardinality(Ev("task", step[r], n)) = 1
                /\ \A n \in tasks[r] \ Returned(r) :
                      Ev("task_result", step[r], n) = {}
                /\ pc[r] = "done" => Len(D) = 2 * Len(executed[r])
                /\ \A i \in 1..Len(D) : \A j \in i..Len(D) : D[i].step <= D[j].step
                /\ \A i \in 1..Len(D) : \A j \in 1..Len(D) :
                      <<D[i].payload.name, D[j].payload.name>> \in graph =>
                          D[i].step < D[j].step
                /\ graph = LinearGraph =>
                      \A i \in 1..Len(D) :
                          D[i].step = (IF D[i].payload.name = "refine_topic"
                                       THEN 1 ELSE 2)

C7_Witness ==
    \E r \in Runs :
        /\ request[r] = Single("debug") /\ graph = LinearGraph /\ pc[r] = "done"
        /\ Len(out[r]) = 4
        /\ out[r][1].type = "task" /\ out[r][1].step = 1
        /\ out[r][2].type = "task_result" /\ out[r][2].step = 1
        /\ out[r][3].type = "task" /\ out[r][3].step = 2
        /\ out[r][4].type = "task_result" /\ out[r][4].step = 2
        /\ out[r][4].payload.name = "generate_joke"

-----------------------------------------------------------------------------
(* C8: in updates mode every step contributes its own chunk, a mapping     *)
(* with exactly one key, the step's name, whose value is the step's        *)
(* partial update; the steps of one layer are never merged into one chunk, *)
(* in whatever order they complete.                                        *)

C8_OneChunkPerStep ==
    \A r \in Runs :
        Asked(r, "updates") =>
            LET U == ChunksOf(r, "updates")
            IN  /\ Len(U) = Len(executed[r])
                /\ \A i \in 1..Len(U) :
                      /\ Cardinality(DOMAIN U[i]) = 1
                      /\ executed[r][i].name \in DOMAIN U[i]
                      /\ U[i][executed[r][i].name] = executed[r][i].update

C8_Witness ==
    \E r \in Runs :
        /\ request[r] = Single("updates") /\ graph = ParallelGraph
        /\ ExecutedNames(r) = <<"generate_joke", "refine_topic">>
        /\ executed[r][1].step = executed[r][2].step
        /\ Len(out[r]) = 2
        /\ DOMAIN out[r][1] = {"generate_joke"}
        /\ DOMAIN out[r][2] = {"refine_topic"}

-----------------------------------------------------------------------------
(* C9 as stated: in values mode the finished stream holds the input state  *)
(* and then one chunk per completed step, each equal to the chunk before   *)
(* it with that step's partial update overwritten or added, and each step  *)
(* reads the chunk before its own.                                         *)

\* next is prev with the fields of the updates ups overwritten or added.
Overwritten(prev, ups, next) ==
    /\ DOMAIN next = DOMAIN prev \cup UNION {DOMAIN u : u \in ups}
    /\ \A k \in DOMAIN next :
          IF \E u \in ups : k \in DOMAIN u
          THEN \E u \in ups : k \in DOMAIN u /\ next[k] = u[k]
          ELSE next[k] = prev[k]

C9_ValuesPerStep ==
    \A r \in Runs :
        (Asked(r, "values") /\ pc[r] = "done") =>
            LET V == ChunksOf(r, "values")
            IN  /\ Len(V) = Len(executed[r]) + 1
                /\ V[1] = input
                /\ \A i \in 1..Len(executed[r]) :
                      /\ Overwritten(V[i], {executed[r][i].update}, V[i + 1])
                      /\ executed[r][i].input = V[i]

(* C9 as amended: in values mode the stream holds the input state and then *)
(* one chunk per completed execution layer, each equal to the chunk before *)
(* it with the partial updates of that layer's steps overwritten or added  *)
(* and every other field unchanged; a step reads the state the preceding   *)
(* layer produced (generate_joke reads topic "ice cream and cats" in the   *)
(* example).                                                               *)

LayersDone(r) ==
    IF pc[r] = "ready" THEN 0 ELSE IF pc[r] = "done" THEN step[r] ELSE step[r] - 1

LayerUpdates(r, s) ==
    {executed[r][i].update : i \in {j \in 1..Len(executed[r]) : executed[r][j].step = s}}

C9_ValuesPerLayer ==
    \A r \in Runs :
        (Asked(r, "values") /\ pc[r] # "ready") =>
            LET V == ChunksOf(r, "values")
            IN  /\ Len(V) = LayersDone(r) + 1
                /\ V[1] = input
                /\ \A i \in 2..Len(V) :
                      Overwritten(V[i - 1], LayerUpdates(r, i - 1), V[i])
                /\ \A k \in 1..Len(executed[r]) :
                      executed[r][k].input = V[executed[r][k].step]
                /\ (graph = LinearGraph /\ input = IceCream) =>
                      \A k \in 1..Len(executed[r]) :
                          executed[r][k].name = "generate_joke" =>
                              executed[r][k].input["topic"] = "ice cream and cats"

C9_Witness ==
    \E r \in Runs :
        /\ request[r] = Single("values") /\ graph = ParallelGraph
        /\ input = [topic |-> "dogs", joke |-> "an old joke"]
        /\ pc[r] = "done"
        /\ Len(executed[r]) = 2
        /\ out[r] = <<input, [topic |-> "dogs and cats",
                              joke |-> "This is a joke about dogs"]>>

-----------------------------------------------------------------------------
(* C10 as stated: for the same graph and the same input, the chunks tagged *)
(* M in a finished combined-mode stream are, in order, the finished stream *)
(* of a run that requested M alone.                                        *)

C10_Case(M) ==
    /\ ~request[1].single /\ M \in Requested(request[1])
    /\ request[2] = Single(M)
    /\ pc[1] = "done" /\ pc[2] = "done"

=============================================================================
